---------------------------- MODULE Spec2Model ----------------------------
(***************************************************************************)
(* Model of the Zachtek WSPR desktop transmitter library (src/src/lib.rs): *)
(* the field decoders, process_line, the polling thread, read_response,    *)
(* set_run and reset_device.                                               *)
(*                                                                         *)
(* A byte is a one-character string ("{", "C", "5", ...).  LF and CR are   *)
(* the strings "\n" and "\r"; bytes >= 128 are the tokens of NonAscii.     *)
(* A Result<T> is a record: Ok(v), Err(e), or Panic(e) when the call       *)
(* unwinds instead of returning.                                           *)
(***************************************************************************)
EXTENDS Integers, Sequences, FiniteSets, TLC

VARIABLES
    line,       \* argument of a direct process_line call
    outcome,    \* what that call produced
    stream,     \* every byte the device sends on the receive side
    pos,        \* number of bytes of stream already read
    rpc,        \* foreground caller: "idle", "reading", "panicked"
    buf,        \* read_response's local line buffer
    results,    \* what each finished read_response call returned, in order
    pollers,    \* per polling thread: pc and index into CODES
    out,        \* what was written to the transport, in order, with its writer
    ctl         \* control lines of the port and the last set_run/reset_device call

vars == <<line, outcome, stream, pos, rpc, buf, results, pollers, out, ctl>>

----------------------------------------------------------------------------
(* Bytes *)

LF == "\n"
CR == "\r"
OPEN_BRACKET == "["
CLOSE_BRACKET == "]"

NonAscii == {"0x80", "0xFF"}

Digits == {"0", "1", "2", "3", "4", "5", "6", "7", "8", "9"}

DigitVal(d) ==
    CASE d = "0" -> 0 [] d = "1" -> 1 [] d = "2" -> 2 [] d = "3" -> 3
      [] d = "4" -> 4 [] d = "5" -> 5 [] d = "6" -> 6 [] d = "7" -> 7
      [] d = "8" -> 8 [] d = "9" -> 9

----------------------------------------------------------------------------
(* Result<T> *)

Ok(v) == [kind |-> "Ok", val |-> v]
Err(e) == [kind |-> "Err", err |-> e]
Panic(e) == [kind |-> "Panic", err |-> e]

IsOk(r) == r.kind = "Ok"
IsErr(r) == r.kind = "Err"
IsPanic(r) == r.kind = "Panic"

----------------------------------------------------------------------------
(* Enumerated value families: the TryFrom<u8> tables num_enum derives *)

Mode == ("S" :> "Sig" @@ "W" :> "Wspr" @@ "N" :> "Idle")

FilterBank == ("A" :> "A" @@ "B" :> "B" @@ "C" :> "C" @@ "D" :> "D")

Reference == ("E" :> "External" @@ "I" :> "Internal")

LocationSource == ("G" :> "Gps" @@ "M" :> "Manual")

LocatorPrecision == ("4" :> "Maidenhead4" @@ "6" :> "Maidenhead6")

PowerEncoding == ("N" :> "Normal" @@ "A" :> "Altitude")

PrefixSuffix == ("P" :> "Prefix" @@ "S" :> "Suffix" @@ "N" :> "None")

Constellation == ("G" :> "GPSOnly" @@ "B" :> "BeiDouOnly" @@ "A" :> "All")

GpsLock == ("T" :> "Locked" @@ "F" :> "Unlocked")

Band ==
    (0 :> "B2190m" @@ 1 :> "B630m" @@ 2 :> "B160m" @@ 3 :> "B80m"
     @@ 4 :> "B40m" @@ 5 :> "B30m" @@ 6 :> "B20m" @@ 7 :> "B17m"
     @@ 8 :> "B15m" @@ 9 :> "B12m" @@ 10 :> "B10m" @@ 11 :> "B6m"
     @@ 12 :> "B4m" @@ 13 :> "B2m" @@ 14 :> "B70Cm" @@ 15 :> "B23Cm"
     @@ 98 :> "NoFilter" @@ 99 :> "Open")

----------------------------------------------------------------------------
(* Integers.  u32 and u64 exceed TLC's integers, so a parsed number is kept *)
(* as its canonical decimal digit string (no leading zeros); the u8 and u16 *)
(* fields are converted to integers where the code computes with them.      *)

U8_MAX == <<"2", "5", "5">>
U16_MAX == <<"6", "5", "5", "3", "5">>
U32_MAX == <<"4", "2", "9", "4", "9", "6", "7", "2", "9", "5">>
U64_MAX ==
    <<"1", "8", "4", "4", "6", "7", "4", "4", "0", "7",
      "3", "7", "0", "9", "5", "5", "1", "6", "1", "5">>

RECURSIVE StripZeros(_)
StripZeros(ds) ==
    IF Len(ds) > 1 /\ ds[1] = "0" THEN StripZeros(Tail(ds)) ELSE ds

RECURSIVE DigitsLeq(_, _)
\* a <= b for two digit strings of the same length
DigitsLeq(a, b) ==
    IF a = <<>> THEN TRUE
    ELSE IF DigitVal(a[1]) < DigitVal(b[1]) THEN TRUE
    ELSE IF DigitVal(a[1]) > DigitVal(b[1]) THEN FALSE
    ELSE DigitsLeq(Tail(a), Tail(b))

\* the decimal value of ds does not overflow the type whose maximum is max
Fits(ds, max) ==
    LET c == StripZeros(ds) IN
    \/ Len(c) < Len(max)
    \/ Len(c) = Len(max) /\ DigitsLeq(c, max)

RECURSIVE DigitsToNat(_)
DigitsToNat(ds) ==
    IF ds = <<>> THEN 0
    ELSE 10 * DigitsToNat(SubSeq(ds, 1, Len(ds) - 1)) + DigitVal(ds[Len(ds)])

DigitChar(n) == CHOOSE d \in Digits : DigitVal(d) = n

RECURSIVE NatToDigits(_)
NatToDigits(n) ==
    IF n < 10 THEN <<DigitChar(n)>>
    ELSE NatToDigits(n \div 10) \o <<DigitChar(n % 10)>>

RECURSIVE MulCarry(_, _, _)
MulCarry(ds, k, carry) ==
    IF ds = <<>> THEN (IF carry = 0 THEN <<>> ELSE NatToDigits(carry))
    ELSE LET d == DigitVal(ds[Len(ds)]) * k + carry IN
         MulCarry(SubSeq(ds, 1, Len(ds) - 1), k, d \div 10)
             \o <<DigitChar(d % 10)>>

\* k * ds, for a canonical digit string ds and a small integer k
MulDigits(k, ds) == StripZeros(MulCarry(ds, k, 0))

----------------------------------------------------------------------------
(* Field decoders *)

ascii_bytes_to_string(bytes) ==
    IF \E i \in 1..Len(bytes) : bytes[i] \in NonAscii
    THEN Err("AsAsciiStrError")
    ELSE Ok(bytes)

\* str::parse::<uN>(): an optional leading "+", then decimal digits only,
\* and the value must not overflow the type
FromStr(max, s) ==
    LET ds == IF Len(s) > 1 /\ s[1] = "+" THEN Tail(s) ELSE s IN
    IF s = <<>> THEN Err("ParseIntError")
    ELSE IF \E i \in 1..Len(ds) : ds[i] \notin Digits THEN Err("ParseIntError")
    ELSE IF ~Fits(ds, max) THEN Err("ParseIntError")
    ELSE Ok(StripZeros(ds))

\* faulty variant: the first byte decides, whatever the length
parse_enum_first_byte(T, args) ==
    IF args = <<>> THEN Err("ensure args.len() == 1")
    ELSE IF args[1] \in DOMAIN T THEN Ok(T[args[1]])
    ELSE Err("Failed to parse enum")

parse_enum(T, args) ==
    IF Len(args) # 1 THEN Err("ensure args.len() == 1")
    ELSE IF args[1] \in DOMAIN T THEN Ok(T[args[1]])
    ELSE Err("Failed to parse enum")

parse_number(max, args) ==
    IF args = <<>> THEN Err("ensure !args.is_empty()")
    ELSE LET s == ascii_bytes_to_string(args) IN
         IF ~IsOk(s) THEN s
         ELSE IF IsOk(FromStr(max, s.val)) THEN FromStr(max, s.val)
         ELSE Err("Failed to parse number")

parse_enum_from_number(T, args) ==
    IF ~(args # <<>> /\ Len(args) <= 3)
    THEN Err("ensure !args.is_empty() && args.len() <= 3")
    ELSE LET n == parse_number(U8_MAX, args) IN
         IF ~IsOk(n) THEN n
         ELSE IF DigitsToNat(n.val) \in DOMAIN T THEN Ok(T[DigitsToNat(n.val)])
         ELSE Err("Failed to parse enum")

\* `n as f32 / d`: the quotient is kept exact, as numerator and divisor
F32Div(n, d) == [num |-> n, den |-> d]

----------------------------------------------------------------------------
(* The responses: one CODE and one parse per struct *)

CurrentModeCommand_CODE == <<"C", "C", "M">>
CurrentModeCommand_parse(args) ==
    LET mode == parse_enum(Mode, args) IN
    IF ~IsOk(mode) THEN mode
    ELSE Ok([tag |-> "CurrentModeCommand", mode |-> mode.val])

CurrentReferenceCommand_CODE == <<"C", "C", "R">>
CurrentReferenceCommand_parse(args) ==
    LET reference == parse_enum(Reference, args) IN
    IF ~IsOk(reference) THEN reference
    ELSE Ok([tag |-> "CurrentReferenceCommand", reference |-> reference.val])

TxPauseOption_CODE == <<"O", "T", "P">>
TxPauseOption_parse(args) ==
    LET minutes == parse_number(U32_MAX, args) IN
    IF ~IsOk(minutes) THEN minutes
    ELSE Ok([tag |-> "TxPauseOption", duration_secs |-> MulDigits(60, minutes.val)])

StartModeOption_CODE == <<"O", "S", "M">>
StartModeOption_parse(args) ==
    LET mode == parse_enum(Mode, args) IN
    IF ~IsOk(mode) THEN mode
    ELSE Ok([tag |-> "StartModeOption", mode |-> mode.val])

BandTxEnable_CODE == <<"O", "B", "D">>
\* faulty variant: a flag byte other than E counts as disabled
BandTxEnable_parse_default(args) ==
    IF Len(args) # 4 THEN Err("ensure args.len() == 4")
    ELSE LET band == parse_enum_from_number(Band, SubSeq(args, 1, 2)) IN
         IF ~IsOk(band) THEN band
         ELSE Ok([tag |-> "BandTxEnable", band |-> band.val,
                  enabled |-> (args[4] = "E")])

BandTxEnable_parse(args) ==
    IF Len(args) # 4 THEN Err("ensure args.len() == 4")
    ELSE LET band_arg == SubSeq(args, 1, 2)
             enabled_arg == args[4]
             band == parse_enum_from_number(Band, band_arg)
         IN  IF ~IsOk(band) THEN band
             ELSE IF enabled_arg = "E"
                  THEN Ok([tag |-> "BandTxEnable", band |-> band.val, enabled |-> TRUE])
             ELSE IF enabled_arg = "D"
                  THEN Ok([tag |-> "BandTxEnable", band |-> band.val, enabled |-> FALSE])
             ELSE Err("Bad args for OBD")

LocationSourceOption_CODE == <<"O", "L", "C">>
LocationSourceOption_parse(args) ==
    LET location_source == parse_enum(LocationSource, args) IN
    IF ~IsOk(location_source) THEN location_source
    ELSE Ok([tag |-> "LocationSourceOption",
             location_source |-> location_source.val])

LocatorPrecisionOption_CODE == <<"O", "L", "P">>
LocatorPrecisionOption_parse(args) ==
    LET locator_precision == parse_enum(LocatorPrecision, args) IN
    IF ~IsOk(locator_precision) THEN locator_precision
    ELSE Ok([tag |-> "LocatorPrecisionOption",
             locator_precision |-> locator_precision.val])

PowerEncodingOption_CODE == <<"O", "P", "W">>
PowerEncodingOption_parse(args) ==
    LET power_encoding == parse_enum(PowerEncoding, args) IN
    IF ~IsOk(power_encoding) THEN power_encoding
    ELSE Ok([tag |-> "PowerEncodingOption",
             power_encoding |-> power_encoding.val])

TimeSlotOption_CODE == <<"O", "T", "S">>
\* faulty variant: the first bucket ends at 5 instead of 4
TimeSlotOption_parse_late(args) ==
    LET parsed == parse_number(U16_MAX, args)
        number == DigitsToNat(parsed.val)
    IN
    IF ~IsOk(parsed) THEN parsed
    ELSE IF number \in 0..5
         THEN Ok([tag |-> "TimeSlotOption", time_slot |-> "TenMinute"])
    ELSE IF number \in 5..14
         THEN Ok([tag |-> "TimeSlotOption", time_slot |-> "TwentyMinute"])
    ELSE IF number = 15
         THEN Ok([tag |-> "TimeSlotOption", time_slot |-> "BandCoordinated"])
    ELSE IF number = 16
         THEN Ok([tag |-> "TimeSlotOption", time_slot |-> "NoSchedule"])
    ELSE IF number = 17
         THEN Ok([tag |-> "TimeSlotOption", time_slot |-> "Tracker"])
    ELSE Err("Bad time slot")

\* u16, then the match on the ranges
TimeSlotOption_parse(args) ==
    LET parsed == parse_number(U16_MAX, args)
        number == DigitsToNat(parsed.val)
    IN
    IF ~IsOk(parsed) THEN parsed
    ELSE IF number \in 0..4
         THEN Ok([tag |-> "TimeSlotOption", time_slot |-> "TenMinute"])
    ELSE IF number \in 5..14
         THEN Ok([tag |-> "TimeSlotOption", time_slot |-> "TwentyMinute"])
    ELSE IF number = 15
         THEN Ok([tag |-> "TimeSlotOption", time_slot |-> "BandCoordinated"])
    ELSE IF number = 16
         THEN Ok([tag |-> "TimeSlotOption", time_slot |-> "NoSchedule"])
    ELSE IF number = 17
         THEN Ok([tag |-> "TimeSlotOption", time_slot |-> "Tracker"])
    ELSE Err("Bad time slot")

PrefixSuffixOption_CODE == <<"O", "P", "S">>
PrefixSuffixOption_parse(args) ==
    LET prefix_suffix == parse_enum(PrefixSuffix, args) IN
    IF ~IsOk(prefix_suffix) THEN prefix_suffix
    ELSE Ok([tag |-> "PrefixSuffixOption", prefix_suffix |-> prefix_suffix.val])

ConstellationOption_CODE == <<"O", "S", "C">>
ConstellationOption_parse(args) ==
    LET constellation == parse_enum(Constellation, args) IN
    IF ~IsOk(constellation) THEN constellation
    ELSE Ok([tag |-> "ConstellationOption", constellation |-> constellation.val])

RECURSIVE TrimStart(_)
TrimStart(s) == IF s # <<>> /\ s[1] = " " THEN TrimStart(Tail(s)) ELSE s

\* faulty variant: leading spaces are trimmed from the text
TextResponseTrimmed(tag, args) ==
    LET text == ascii_bytes_to_string(args) IN
    IF ~IsOk(text) THEN text
    ELSE Ok([tag |-> tag, text |-> TrimStart(text.val)])

\* the sixteen free-text responses share one shape: the payload as text
TextResponse(tag, args) ==
    LET text == ascii_bytes_to_string(args) IN
    IF ~IsOk(text) THEN text
    ELSE Ok([tag |-> tag, text |-> text.val])

CallSignData_CODE == <<"D", "C", "S">>
CallSignData_parse(args) == TextResponse("CallSignData", args)

SuffixData_CODE == <<"D", "S", "F">>
SuffixData_parse(args) == TextResponse("SuffixData", args)

PrefixData_CODE == <<"D", "P", "F">>
PrefixData_parse(args) == TextResponse("PrefixData", args)

Locator4Data_CODE == <<"D", "L", "4">>
Locator4Data_parse(args) == TextResponse("Locator4Data", args)

Locator6Data_CODE == <<"D", "L", "6">>
Locator6Data_parse(args) == TextResponse("Locator6Data", args)

PowerData_CODE == <<"D", "P", "D">>
PowerData_parse(args) ==
    LET dbm == parse_number(U8_MAX, args) IN
    IF ~IsOk(dbm) THEN dbm
    ELSE Ok([tag |-> "PowerData", dbm |-> DigitsToNat(dbm.val)])

NameData_CODE == <<"D", "N", "M">>
NameData_parse(args) == TextResponse("NameData", args)

GeneratorFrequencyData_CODE == <<"D", "G", "F">>
GeneratorFrequencyData_parse(args) ==
    LET centihertz == parse_number(U32_MAX, args) IN
    IF ~IsOk(centihertz) THEN centihertz
    ELSE Ok([tag |-> "GeneratorFrequencyData",
             hertz |-> F32Div(centihertz.val, 100)])

ExternalReferenceFrequencyData_CODE == <<"D", "E", "R">>
ExternalReferenceFrequencyData_parse(args) ==
    LET hertz == parse_number(U32_MAX, args) IN
    IF ~IsOk(hertz) THEN hertz
    ELSE Ok([tag |-> "ExternalReferenceFrequencyData", hertz_u32 |-> hertz.val])

ProductModelNumberFactory_CODE == <<"F", "P", "N">>
ProductModelNumberFactory_parse(args) ==
    LET model == parse_number(U16_MAX, args) IN
    IF ~IsOk(model) THEN model
    ELSE Ok([tag |-> "ProductModelNumberFactory", model |-> DigitsToNat(model.val)])

HardwareVersionFactory_CODE == <<"F", "H", "V">>
HardwareVersionFactory_parse(args) == TextResponse("HardwareVersionFactory", args)

HardwareRevisionFactory_CODE == <<"F", "H", "R">>
HardwareRevisionFactory_parse(args) == TextResponse("HardwareRevisionFactory", args)

SoftwareVersionFactory_CODE == <<"F", "S", "V">>
SoftwareVersionFactory_parse(args) == TextResponse("SoftwareVersionFactory", args)

SoftwareRevisionFactory_CODE == <<"F", "S", "R">>
SoftwareRevisionFactory_parse(args) == TextResponse("SoftwareRevisionFactory", args)

ReferenceOscillatorFrequencyFactory_CODE == <<"F", "R", "F">>
ReferenceOscillatorFrequencyFactory_parse(args) ==
    LET hertz == parse_number(U32_MAX, args) IN
    IF ~IsOk(hertz) THEN hertz
    ELSE Ok([tag |-> "ReferenceOscillatorFrequencyFactory",
             hertz_u32 |-> hertz.val])

LowPassFilterFactory_CODE == <<"F", "L", "P">>
LowPassFilterFactory_parse(args) ==
    IF Len(args) # 4 THEN Err("ensure args.len() == 4")
    ELSE LET bank_arg == SubSeq(args, 1, 1)
             band_arg == SubSeq(args, 3, 4)
             filter_bank == parse_enum(FilterBank, bank_arg)
             band == parse_enum_from_number(Band, band_arg)
         IN  IF ~IsOk(filter_bank) THEN filter_bank
             ELSE IF ~IsOk(band) THEN band
             ELSE Ok([tag |-> "LowPassFilterFactory",
                      filter_bank |-> filter_bank.val, band |-> band.val])

Locator4GPS_CODE == <<"G", "L", "4">>
Locator4GPS_parse(args) == TextResponse("Locator4GPS", args)

Locator6GPS_CODE == <<"G", "L", "6">>
Locator6GPS_parse(args) == TextResponse("Locator6GPS", args)

TimeGPS_CODE == <<"G", "T", "M">>
TimeGPS_parse(args) == TextResponse("TimeGPS", args)

LockStatusGPS_CODE == <<"G", "L", "C">>
LockStatusGPS_parse(args) ==
    LET lock == parse_enum(GpsLock, args) IN
    IF ~IsOk(lock) THEN lock
    ELSE Ok([tag |-> "LockStatusGPS", lock |-> lock.val])

SatelliteInfoGPS_CODE == <<"G", "S", "I">>
SatelliteInfoGPS_parse(args) == TextResponse("SatelliteInfoGPS", args)

TransmitterFrequency_CODE == <<"T", "F", "Q">>
TransmitterFrequency_parse(args) ==
    LET centihertz == parse_number(U64_MAX, args) IN
    IF ~IsOk(centihertz) THEN centihertz
    ELSE Ok([tag |-> "TransmitterFrequency",
             hertz |-> F32Div(centihertz.val, 100)])

TransmitterStatus_CODE == <<"T", "O", "N">>
TransmitterStatus_parse(args) ==
    IF Len(args) # 1 THEN Err("ensure args.len() == 1")
    ELSE LET first_byte == args[1] IN
         IF first_byte = "T" THEN Ok([tag |-> "TransmitterStatus", on |-> TRUE])
         ELSE IF first_byte = "F"
              THEN Ok([tag |-> "TransmitterStatus", on |-> FALSE])
         ELSE Err("bad char")

MicrocontrollerPause_CODE == <<"M", "P", "S">>
MicrocontrollerPause_parse(args) == Ok([tag |-> "MicrocontrollerPause"])

MicrocontrollerInfo_CODE == <<"M", "I", "N">>
MicrocontrollerInfo_parse(args) == TextResponse("MicrocontrollerInfo", args)

LowPassFilterSet_CODE == <<"L", "P", "I">>
LowPassFilterSet_parse(args) ==
    LET filter_bank == parse_enum(FilterBank, args) IN
    IF ~IsOk(filter_bank) THEN filter_bank
    ELSE Ok([tag |-> "LowPassFilterSet", filter_bank |-> filter_bank.val])

MicrocontrollerVoltage_CODE == <<"M", "V", "C">>
MicrocontrollerVoltage_parse(args) ==
    LET s == ascii_bytes_to_string(args) IN
    IF ~IsOk(s) THEN s
    ELSE LET millivolts == FromStr(U32_MAX, s.val) IN
         IF ~IsOk(millivolts) THEN millivolts
         ELSE Ok([tag |-> "MicrocontrollerVoltage",
                  voltage |-> F32Div(millivolts.val, 1000)])

TransmitterCurrentBand_CODE == <<"T", "B", "N">>
TransmitterCurrentBand_parse(args) ==
    LET band == parse_enum_from_number(Band, args) IN
    IF ~IsOk(band) THEN band
    ELSE Ok([tag |-> "TransmitterCurrentBand", band |-> band.val])

TransmitterWSPRSymbol_CODE == <<"T", "W", "S">>
TransmitterWSPRSymbol_parse(args) == TextResponse("TransmitterWSPRSymbol", args)

TransmitterBandCycleComplete_CODE == <<"T", "C", "C">>
TransmitterBandCycleComplete_parse(args) ==
    Ok([tag |-> "TransmitterBandCycleComplete"])

----------------------------------------------------------------------------
(* process_line *)

\* s.retain_mut(|c| c != &b'\n' && c != &b'\r')
RECURSIVE Retain(_)
Retain(s) ==
    IF s = <<>> THEN <<>>
    ELSE IF s[1] = LF \/ s[1] = CR THEN Retain(Tail(s))
    ELSE <<s[1]>> \o Retain(Tail(s))

\* faulty variant: the code is taken from the start of the line
HeaderCodeFromStart(s) == SubSeq(s, 1, 3)

\* `let code = &s[1..4]`
HeaderCode(s) == SubSeq(s, 2, 4)

\* the `match code { ... }` of process_line
Dispatch(code, args) ==
    CASE
         code = CurrentModeCommand_CODE -> CurrentModeCommand_parse(args)
      [] code = CurrentReferenceCommand_CODE -> CurrentReferenceCommand_parse(args)
      [] code = TxPauseOption_CODE -> TxPauseOption_parse(args)
      [] code = StartModeOption_CODE -> StartModeOption_parse(args)
      [] code = BandTxEnable_CODE -> BandTxEnable_parse(args)
      [] code = LocationSourceOption_CODE -> LocationSourceOption_parse(args)
      [] code = LocatorPrecisionOption_CODE -> LocatorPrecisionOption_parse(args)
      [] code = PowerEncodingOption_CODE -> PowerEncodingOption_parse(args)
      [] code = TimeSlotOption_CODE -> TimeSlotOption_parse(args)
      [] code = PrefixSuffixOption_CODE -> PrefixSuffixOption_parse(args)
      [] code = ConstellationOption_CODE -> ConstellationOption_parse(args)
      [] code = CallSignData_CODE -> CallSignData_parse(args)
      [] code = SuffixData_CODE -> SuffixData_parse(args)
      [] code = PrefixData_CODE -> PrefixData_parse(args)
      [] code = Locator4Data_CODE -> Locator4Data_parse(args)
      [] code = Locator6Data_CODE -> Locator6Data_parse(args)
      [] code = PowerData_CODE -> PowerData_parse(args)
      [] code = NameData_CODE -> NameData_parse(args)
      [] code = GeneratorFrequencyData_CODE -> GeneratorFrequencyData_parse(args)
      [] code = ExternalReferenceFrequencyData_CODE -> ExternalReferenceFrequencyData_parse(args)
      [] code = ProductModelNumberFactory_CODE -> ProductModelNumberFactory_parse(args)
      [] code = HardwareVersionFactory_CODE -> HardwareVersionFactory_parse(args)
      [] code = HardwareRevisionFactory_CODE -> HardwareRevisionFactory_parse(args)
      [] code = SoftwareVersionFactory_CODE -> SoftwareVersionFactory_parse(args)
      [] code = SoftwareRevisionFactory_CODE -> SoftwareRevisionFactory_parse(args)
      [] code = ReferenceOscillatorFrequencyFactory_CODE -> ReferenceOscillatorFrequencyFactory_parse(args)
      [] code = LowPassFilterFactory_CODE -> LowPassFilterFactory_parse(args)
      [] code = Locator4GPS_CODE -> Locator4GPS_parse(args)
      [] code = Locator6GPS_CODE -> Locator6GPS_parse(args)
      [] code = TimeGPS_CODE -> TimeGPS_parse(args)
      [] code = LockStatusGPS_CODE -> LockStatusGPS_parse(args)
      [] code = SatelliteInfoGPS_CODE -> SatelliteInfoGPS_parse(args)
      [] code = TransmitterFrequency_CODE -> TransmitterFrequency_parse(args)
      [] code = TransmitterStatus_CODE -> TransmitterStatus_parse(args)
      [] code = MicrocontrollerPause_CODE -> MicrocontrollerPause_parse(args)
      [] code = MicrocontrollerInfo_CODE -> MicrocontrollerInfo_parse(args)
      [] code = LowPassFilterSet_CODE -> LowPassFilterSet_parse(args)
      [] code = MicrocontrollerVoltage_CODE -> MicrocontrollerVoltage_parse(args)
      [] code = TransmitterCurrentBand_CODE -> TransmitterCurrentBand_parse(args)
      [] code = TransmitterWSPRSymbol_CODE -> TransmitterWSPRSymbol_parse(args)
      [] code = TransmitterBandCycleComplete_CODE -> TransmitterBandCycleComplete_parse(args)
      [] OTHER -> Err("unknown response")

\* faulty variant: the length check is missing, so `&s[..5]` unwinds
process_line_unchecked(s0) ==
    LET s == Retain(s0) IN
    IF s = <<>> THEN Err("Empty line")
    ELSE IF 5 > Len(s) THEN Panic("range end index 5 out of range for slice")
    ELSE LET command_string == ascii_bytes_to_string(SubSeq(s, 1, 5)) IN
         IF ~IsOk(command_string) THEN command_string
         ELSE IF 6 > Len(s)
              THEN Panic("range start index 6 out of range for slice")
         ELSE Dispatch(SubSeq(s, 2, 4), SubSeq(s, 7, Len(s)))

\* faulty variant: the payload starts at the byte after the header, `&s[5..]`
process_line_from_5(s0) ==
    LET s == Retain(s0) IN
    IF s = <<>> THEN Err("Empty line")
    ELSE IF ~(Len(s) >= 5) THEN Err("ensure s.len() >= 5")
    ELSE LET command_string == ascii_bytes_to_string(SubSeq(s, 1, 5)) IN
         IF ~IsOk(command_string) THEN command_string
         ELSE Dispatch(HeaderCode(s), SubSeq(s, 6, Len(s)))

\* `&s[6..]` unwinds when s has fewer than 6 bytes
process_line(s0) ==
    LET s == Retain(s0) IN
    IF s = <<>> THEN Err("Empty line")
    ELSE IF ~(Len(s) >= 5) THEN Err("ensure s.len() >= 5")
    ELSE LET command == SubSeq(s, 1, 5)
             code == HeaderCode(s)
             command_string == ascii_bytes_to_string(command)
         IN  IF ~IsOk(command_string) THEN command_string
             ELSE IF 6 > Len(s)
                  THEN Panic("range start index 6 out of range for slice")
             ELSE Dispatch(code, SubSeq(s, 7, Len(s)))

----------------------------------------------------------------------------
(* Bounds of the model *)

MaxFaults == 1      \* transport reads that fail per behaviour
MaxLines == 2       \* lines per received stream
MaxNoise == 2       \* terminator bytes in front of the first line
MaxPollers == 1     \* polling threads spawned per behaviour
MaxOut == 224       \* write events recorded in out (a cycle is 208)

PollerIds == 1..MaxPollers

----------------------------------------------------------------------------
(* Inputs *)

NoOutcome == [kind |-> "None"]

RegistryCodes ==
    { CurrentModeCommand_CODE, CurrentReferenceCommand_CODE, TxPauseOption_CODE,
      StartModeOption_CODE, BandTxEnable_CODE, LocationSourceOption_CODE,
      LocatorPrecisionOption_CODE, PowerEncodingOption_CODE, TimeSlotOption_CODE,
      PrefixSuffixOption_CODE, ConstellationOption_CODE, CallSignData_CODE,
      SuffixData_CODE, PrefixData_CODE, Locator4Data_CODE, Locator6Data_CODE,
      PowerData_CODE, NameData_CODE, GeneratorFrequencyData_CODE,
      ExternalReferenceFrequencyData_CODE, ProductModelNumberFactory_CODE,
      HardwareVersionFactory_CODE, HardwareRevisionFactory_CODE,
      SoftwareVersionFactory_CODE, SoftwareRevisionFactory_CODE,
      ReferenceOscillatorFrequencyFactory_CODE, LowPassFilterFactory_CODE,
      Locator4GPS_CODE, Locator6GPS_CODE, TimeGPS_CODE, LockStatusGPS_CODE,
      SatelliteInfoGPS_CODE, TransmitterFrequency_CODE, TransmitterStatus_CODE,
      MicrocontrollerPause_CODE, MicrocontrollerInfo_CODE, LowPassFilterSet_CODE,
      MicrocontrollerVoltage_CODE, TransmitterCurrentBand_CODE,
      TransmitterWSPRSymbol_CODE, TransmitterBandCycleComplete_CODE }

\* codes the match does not list: DSC is what the command-line tool polls
OtherCodes ==
    { <<"Z", "Z", "Z">>, <<"D", "S", "C">>, <<"C", "C", "X">>,
      <<"c", "c", "m">>, <<"C", "M", "C">> }

Payloads ==
    { <<>>, <<"S">>, <<"W">>, <<"N">>, <<"E">>, <<"I">>, <<"G">>, <<"M">>,
      <<"4">>, <<"6">>, <<"A">>, <<"B">>, <<"C">>, <<"D">>, <<"P">>, <<"T">>,
      <<"F">>, <<"X">>, <<"0x80">>, <<"S", "S">>,
      <<"0">>, <<"5">>, <<"0", "5">>, <<"1", "4">>, <<"1", "5">>, <<"1", "6">>,
      <<"1", "7">>, <<"1", "8">>, <<"0", "0", "4">>,
      <<"6", "0">>, <<"9", "8">>, <<"1", "0", "0">>, <<"2", "5", "5">>,
      <<"2", "5", "6">>, <<"+", "5">>, <<"-", "5">>, <<"5", "x">>,
      <<"3", "3", "0", "0">>, <<"6", "5", "5", "3", "5">>,
      <<"6", "5", "5", "3", "6">>, <<"0", "0", "0", "0", "5", "0", "0">>,
      <<"0", "0", "1", "0", "0", "0", "0", "0", "0">>,
      <<"4", "2", "9", "4", "9", "6", "7", "2", "9", "6">>,
      <<"0", "0", "0", "3", "0", "0", "0", "0", "0", "0", "0", "0">>,
      <<"9", "9", "9", "9", "9", "9", "9", "9", "9", "9", "9", "9">>,
      <<"0", "5", " ", "E">>, <<"0", "5", " ", "D">>, <<"0", "5", "_", "E">>,
      <<"0", "5", " ", "X">>, <<"0", "5", "0x80", "E">>, <<"+", "5", " ", "E">>,
      <<"A", "0x80", "9", "9">>, <<"1", "6", " ", "E">>, <<"9", "9", " ", "D">>,
      <<"A", " ", "0", "5">>, <<"A", "_", "0", "5">>, <<"D", " ", "9", "8">>,
      <<"E", " ", "0", "5">>, <<"A", " ", "1", "6">>,
      <<"A", "A", "0", "A", "A">>, <<" ", "K", "1">>, <<"K", "1", " ">>, <<"K", "0x80", "1">>, <<"1", "2", ":", "3", "4">> }

Frame(open, code, close, sep, payload) ==
    <<open>> \o code \o <<close>> \o <<sep>> \o payload

Prefixes(s) == { SubSeq(s, 1, n) : n \in 0..Len(s) }

\* arguments of direct process_line calls: every code with every payload,
\* other delimiters and separators, truncated frames, embedded terminators
DecodeLines ==
    { Frame("{", code, "}", " ", payload) :
          code \in RegistryCodes \cup OtherCodes, payload \in Payloads }
    \cup { <<open>> \o code \o <<close>> \o rest :
               open \in {"{", "[", "X", "0x80"},
               code \in { CurrentModeCommand_CODE, <<"Z", "Z", "Z">>,
                          TransmitterBandCycleComplete_CODE,
                          <<"C", "0xFF", "M">> },
               close \in {"}", "]", "Y"},
               rest \in { <<>>, <<" ">>, <<" ", "S">>, <<"_", "S">>,
                          <<"0x80", "S">>, <<"S">> } }
    \cup Prefixes(<<"{", "C", "C", "M", "}", " ", "S">>)
    \cup { <<LF>>, <<CR, LF>>, <<"{", "C", "C", LF>>,
           <<"{", "C", CR, "C", "M", "}", " ", "S", CR, LF>>,
           <<"{", "T", "C", "C", "}", CR, LF>>,
           <<"{", "C", "C", "M", "}", " ", LF, "S">> }

\* lines a stream is made of
StreamLines ==
    { <<"{", "C", "C", "M", "}", " ", "S">>,
      <<"{", "C", "C", "M", "}", "_", "S">>,
      <<"{", "C", "C", "M", "}", " ", "X">>,
      <<"{", "Z", "Z", "Z", "}", " ", "S">>,
      <<"X", "C", "C", "M", "Y", " ", "W">>,
      <<"{", "T", "C", "C", "}", " ">>,
      <<"{", "T", "C", "C", "}">>,
      <<"{", "C", "C", "M">>,
      <<"N">> }

Terminators == { <<LF>>, <<CR, LF>> }

RECURSIVE Noise(_)
\* the sequences of at most n terminator bytes
Noise(n) ==
    IF n = 0 THEN { <<>> }
    ELSE Noise(n - 1)
         \cup { s \o <<b>> : s \in Noise(n - 1), b \in {LF, CR} }

RECURSIVE LineStreams(_)
\* 1..n lines, each followed by LF or CR LF
LineStreams(n) ==
    LET one == { l \o t : l \in StreamLines, t \in Terminators } IN
    IF n = 1 THEN one
    ELSE LineStreams(n - 1)
         \cup { s \o l : s \in LineStreams(n - 1), l \in one }

FrameStreams == { nz \o s : nz \in Noise(MaxNoise), s \in LineStreams(MaxLines) }

\* what the device sends during a session
SessionStreams ==
    { <<>>,
      <<CR, "N", LF>>,
      <<"{", "T", "C", "C", "}", LF>>,
      <<"{", "M", "P", "S", "}", " ", LF>> }

----------------------------------------------------------------------------
(* Direct calls of process_line *)

decodeVars == <<line, outcome>>
readerVars == <<stream, pos, rpc, buf, results>>
pollVars == <<pollers, out>>

ProcessLineCall ==
    /\ outcome = NoOutcome
    /\ outcome' = process_line(line)
    /\ UNCHANGED <<line, readerVars, pollVars, ctl>>

----------------------------------------------------------------------------
(* ZachtekDevice::read_response, one transport read per step *)

CallReadResponse ==
    /\ rpc = "idle"
    /\ Len(results) < MaxLines + MaxFaults
    /\ rpc' = "reading"
    /\ buf' = <<>>
    /\ UNCHANGED <<decodeVars, ctl, stream, pos, results, pollVars>>

\* faulty variant: an LF ends the line even when the buffer is empty
ReadStepEveryLf(byte) ==
    IF byte = LF
    THEN LET r == process_line(buf) IN
         /\ buf' = <<>>
         /\ IF IsPanic(r)
            THEN rpc' = "panicked" /\ results' = results
            ELSE rpc' = "idle" /\ results' = Append(results, r)
    ELSE IF byte = CR
    THEN UNCHANGED <<rpc, buf, results>>
    ELSE /\ buf' = Append(buf, byte)
         /\ UNCHANGED <<rpc, results>>

\* what the loop body does with one byte read
ReadStep(byte) ==
    IF byte = LF /\ buf # <<>>
    THEN LET r == process_line(buf) IN
         /\ buf' = <<>>
         /\ IF IsPanic(r)
            THEN rpc' = "panicked" /\ results' = results
            ELSE rpc' = "idle" /\ results' = Append(results, r)
    ELSE IF byte = LF \/ byte = CR
    THEN UNCHANGED <<rpc, buf, results>>
    ELSE /\ buf' = Append(buf, byte)
         /\ UNCHANGED <<rpc, results>>

\* port.read returns Ok(1)
ReadByte ==
    /\ rpc = "reading"
    /\ pos < Len(stream)
    /\ pos' = pos + 1
    /\ ReadStep(stream[pos + 1])
    /\ UNCHANGED <<decodeVars, ctl, stream, pollVars>>

TransportErrors == { Err("timeout"), Err("io"), Err("ensure n_read == 1") }

Faults == Cardinality({ i \in 1..Len(results) : results[i] \in TransportErrors })

\* faulty variant: the buffer outlives the call
ReadReturnsKeepsBuffer(e) ==
    /\ rpc' = "idle"
    /\ buf' = buf
    /\ results' = Append(results, e)
    /\ UNCHANGED <<decodeVars, ctl, stream, pos, pollVars>>

\* the call returns e and its buffer is dropped
ReadReturns(e) ==
    /\ rpc' = "idle"
    /\ buf' = <<>>
    /\ results' = Append(results, e)
    /\ UNCHANGED <<decodeVars, ctl, stream, pos, pollVars>>

\* faulty variant: a timeout is taken as the end of the line
ReadTimeoutEndsLine ==
    /\ rpc = "reading"
    /\ Faults < MaxFaults
    /\ ReadReturns(process_line(buf))

\* port.read returns Err of kind TimedOut
ReadTimeout ==
    /\ rpc = "reading"
    /\ Faults < MaxFaults
    /\ ReadReturns(Err("timeout"))

\* port.read returns another Err
ReadIoError ==
    /\ rpc = "reading"
    /\ Faults < MaxFaults
    /\ ReadReturns(Err("io"))

\* port.read returns Ok(0)
ReadNothing ==
    /\ rpc = "reading"
    /\ Faults < MaxFaults
    /\ ReadReturns(Err("ensure n_read == 1"))

ReaderNext ==
    \/ CallReadResponse
    \/ ReadByte
    \/ ReadTimeout
    \/ ReadIoError
    \/ ReadNothing

----------------------------------------------------------------------------
(* The polling thread *)

\* faulty variant: the list of the command-line tool, which also asks for DSC
CODES_with_DSC ==
    << CurrentModeCommand_CODE, CurrentReferenceCommand_CODE, TxPauseOption_CODE,
       StartModeOption_CODE, BandTxEnable_CODE, LocationSourceOption_CODE,
       LocatorPrecisionOption_CODE, PowerEncodingOption_CODE, TimeSlotOption_CODE,
       PrefixSuffixOption_CODE, ConstellationOption_CODE, <<"D", "S", "C">>,
       SuffixData_CODE, PrefixData_CODE, Locator4Data_CODE, Locator6Data_CODE,
       PowerData_CODE, NameData_CODE, GeneratorFrequencyData_CODE,
       ExternalReferenceFrequencyData_CODE, ProductModelNumberFactory_CODE,
       HardwareVersionFactory_CODE, HardwareRevisionFactory_CODE,
       SoftwareVersionFactory_CODE, SoftwareRevisionFactory_CODE,
       ReferenceOscillatorFrequencyFactory_CODE, LowPassFilterFactory_CODE >>

CODES ==
    << CurrentModeCommand_CODE, CurrentReferenceCommand_CODE, TxPauseOption_CODE,
       StartModeOption_CODE, BandTxEnable_CODE, LocationSourceOption_CODE,
       LocatorPrecisionOption_CODE, PowerEncodingOption_CODE, TimeSlotOption_CODE,
       PrefixSuffixOption_CODE, ConstellationOption_CODE, SuffixData_CODE,
       PrefixData_CODE, Locator4Data_CODE, Locator6Data_CODE, PowerData_CODE,
       NameData_CODE, GeneratorFrequencyData_CODE,
       ExternalReferenceFrequencyData_CODE, ProductModelNumberFactory_CODE,
       HardwareVersionFactory_CODE, HardwareRevisionFactory_CODE,
       SoftwareVersionFactory_CODE, SoftwareRevisionFactory_CODE,
       ReferenceOscillatorFrequencyFactory_CODE, LowPassFilterFactory_CODE >>

FLUSH == "flush"

\* out with the events evs of writer p appended, up to MaxOut events
Record(p, evs) ==
    LET tagged == [i \in 1..Len(evs) |-> [w |-> p, b |-> evs[i]]]
        room == MaxOut - Len(out)
    IN  IF Len(evs) <= room THEN out \o tagged
        ELSE out \o SubSeq(tagged, 1, room)

\* the five write_all calls of write_code, in order
WriteSteps == <<"LF1", "OPEN", "CODE", "CLOSE", "LF2">>

\* faulty variant: the frame is not opened with an LF
write_code_no_leading_lf(pc, code) ==
    CASE pc = "LF1" -> <<>>
      [] pc = "OPEN" -> <<OPEN_BRACKET>>
      [] pc = "CODE" -> code
      [] pc = "CLOSE" -> <<CLOSE_BRACKET>>
      [] pc = "LF2" -> <<LF>>

\* the bytes the write_all at step pc is given
write_code(pc, code) ==
    CASE pc = "LF1" -> <<LF>>
      [] pc = "OPEN" -> <<OPEN_BRACKET>>
      [] pc = "CODE" -> code
      [] pc = "CLOSE" -> <<CLOSE_BRACKET>>
      [] pc = "LF2" -> <<LF>>

\* where the thread is after the write_all at step pc returned Ok
AfterWrite(pc) ==
    CASE pc = "LF1" -> "OPEN"
      [] pc = "OPEN" -> "CODE"
      [] pc = "CODE" -> "CLOSE"
      [] pc = "CLOSE" -> "LF2"
      [] pc = "LF2" -> "flush"

IsWriteStep(pc) == \E i \in 1..Len(WriteSteps) : WriteSteps[i] = pc

\* start_poll_thread: the port is cloned and the thread spawned
StartPollThread(p) ==
    /\ rpc = "idle"
    /\ pollers[p].pc = "unspawned"
    /\ \A q \in PollerIds : q < p => pollers[q].pc # "unspawned"
    /\ pollers' = [pollers EXCEPT ![p] = [pc |-> "LF1", idx |-> 1]]
    /\ UNCHANGED <<decodeVars, ctl, readerVars, out>>

\* start_poll_thread: try_clone fails and the caller unwinds
StartPollThreadFails ==
    /\ rpc = "idle"
    /\ \E p \in PollerIds : pollers[p].pc = "unspawned"
    /\ rpc' = "panicked"
    /\ UNCHANGED <<decodeVars, ctl, stream, pos, buf, results, pollVars>>

\* faulty variant: the write waits for the reader to leave its blocking read
PollWriteLocked(p) ==
    /\ IsWriteStep(pollers[p].pc)
    /\ rpc # "reading"
    /\ out' = Record(p, write_code(pollers[p].pc, CODES[pollers[p].idx]))
    /\ pollers' = [pollers EXCEPT ![p].pc = AfterWrite(pollers[p].pc)]
    /\ UNCHANGED <<decodeVars, ctl, readerVars>>

\* a write_all of write_code returns Ok
PollWrite(p) ==
    /\ IsWriteStep(pollers[p].pc)
    /\ out' = Record(p, write_code(pollers[p].pc, CODES[pollers[p].idx]))
    /\ pollers' = [pollers EXCEPT ![p].pc = AfterWrite(pollers[p].pc)]
    /\ UNCHANGED <<decodeVars, ctl, readerVars>>

\* faulty variant: the panic of the thread takes the caller down with it
PollWriteFailsAborts(p) ==
    /\ IsWriteStep(pollers[p].pc)
    /\ \E n \in 0..(Len(write_code(pollers[p].pc, CODES[pollers[p].idx])) - 1) :
           out' = Record(p, SubSeq(write_code(pollers[p].pc,
                                              CODES[pollers[p].idx]), 1, n))
    /\ pollers' = [pollers EXCEPT ![p].pc = "panicked"]
    /\ rpc' = "panicked"
    /\ UNCHANGED <<decodeVars, ctl, stream, pos, buf, results>>

\* a write_all returns Err after part of its bytes went out: expect unwinds
PollWriteFails(p) ==
    /\ IsWriteStep(pollers[p].pc)
    /\ \E n \in 0..(Len(write_code(pollers[p].pc, CODES[pollers[p].idx])) - 1) :
           out' = Record(p, SubSeq(write_code(pollers[p].pc,
                                              CODES[pollers[p].idx]), 1, n))
    /\ pollers' = [pollers EXCEPT ![p].pc = "panicked"]
    /\ UNCHANGED <<decodeVars, ctl, readerVars>>

\* port.flush() returns Ok
PollFlush(p) ==
    /\ pollers[p].pc = "flush"
    /\ out' = Record(p, <<FLUSH>>)
    /\ pollers' = [pollers EXCEPT ![p].pc = "sleep"]
    /\ UNCHANGED <<decodeVars, ctl, readerVars>>

\* port.flush() returns Err: expect unwinds
PollFlushFails(p) ==
    /\ pollers[p].pc = "flush"
    /\ pollers' = [pollers EXCEPT ![p].pc = "panicked"]
    /\ UNCHANGED <<decodeVars, ctl, readerVars, out>>

\* the 500 ms sleep ends: the next code, or the end of the for loop
PollSleep(p) ==
    /\ pollers[p].pc = "sleep"
    /\ pollers' = IF pollers[p].idx < Len(CODES)
                  THEN [pollers EXCEPT ![p] = [pc |-> "LF1", idx |-> @.idx + 1]]
                  ELSE [pollers EXCEPT ![p].pc = "interval"]
    /\ UNCHANGED <<decodeVars, ctl, readerVars, out>>

\* faulty variant: the thread returns after one cycle
PollIntervalReturns(p) ==
    /\ pollers[p].pc = "interval"
    /\ pollers' = [pollers EXCEPT ![p].pc = "returned"]
    /\ UNCHANGED <<decodeVars, ctl, readerVars, out>>

\* sleep(poll_sleep_interval) ends: the loop starts over
PollInterval(p) ==
    /\ pollers[p].pc = "interval"
    /\ pollers' = [pollers EXCEPT ![p] = [pc |-> "LF1", idx |-> 1]]
    /\ UNCHANGED <<decodeVars, ctl, readerVars, out>>

\* the steps of poll_thread in which every transport call succeeds
poll_thread(p) ==
    \/ PollWrite(p)
    \/ PollFlush(p)
    \/ PollSleep(p)
    \/ PollInterval(p)

PollerNext ==
    \/ \E p \in PollerIds : StartPollThread(p)
    \/ StartPollThreadFails
    \/ \E p \in PollerIds : poll_thread(p)
    \/ \E p \in PollerIds : PollWriteFails(p)
    \/ \E p \in PollerIds : PollFlushFails(p)

----------------------------------------------------------------------------
(* ZachtekDevice::set_run and ZachtekDevice::reset_device, one signal write
   per step, and ZachtekDevice::clear_input.  ctl.sig lists the signal writes the current or last call
   attempted, ctl.ret is what that call returned, ctl.dtr and ctl.rts are
   the levels of the two lines, ctl.set_run_ok records that some set_run
   call has returned Ok. *)

NoCall ==
    [ op |-> "none", sig |-> <<>>, ret |-> NoOutcome,
      dtr |-> "unknown", rts |-> "unknown", set_run_ok |-> FALSE ]

\* level of a control line after a write of the boolean b
Level(b) == IF b THEN "high" ELSE "low"

\* one attempted signal write
SignalWrite(l, b, ok) == [line |-> l, level |-> Level(b), ok |-> ok]

CallSetRun ==
    /\ rpc = "idle"
    /\ rpc' = "set_run:dtr"
    /\ ctl' = [ctl EXCEPT !.op = "set_run", !.sig = <<>>, !.ret = NoOutcome]
    /\ UNCHANGED <<decodeVars, stream, pos, buf, results, pollVars>>

\* write_data_terminal_ready(false) returns Ok, then the 100 ms sleep
SetRunDtr ==
    /\ rpc = "set_run:dtr"
    /\ rpc' = "set_run:rts"
    /\ ctl' = [ctl EXCEPT !.sig = Append(@, SignalWrite("DTR", FALSE, TRUE)),
                          !.dtr = Level(FALSE)]
    /\ UNCHANGED <<decodeVars, stream, pos, buf, results, pollVars>>

\* write_data_terminal_ready(false) returns Err: the ? returns it
SetRunDtrFails ==
    /\ rpc = "set_run:dtr"
    /\ rpc' = "idle"
    /\ ctl' = [ctl EXCEPT !.sig = Append(@, SignalWrite("DTR", FALSE, FALSE)),
                          !.ret = Err("Failed to set DTR")]
    /\ UNCHANGED <<decodeVars, stream, pos, buf, results, pollVars>>

\* faulty variant: RTS is raised instead of lowered
SetRunRtsHigh ==
    /\ rpc = "set_run:rts"
    /\ rpc' = "idle"
    /\ ctl' = [ctl EXCEPT !.sig = Append(@, SignalWrite("RTS", TRUE, TRUE)),
                          !.rts = Level(TRUE),
                          !.ret = Ok("()"),
                          !.set_run_ok = TRUE]
    /\ UNCHANGED <<decodeVars, stream, pos, buf, results, pollVars>>

\* write_request_to_send(false) returns Ok, then the sleep and Ok(())
SetRunRts ==
    /\ rpc = "set_run:rts"
    /\ rpc' = "idle"
    /\ ctl' = [ctl EXCEPT !.sig = Append(@, SignalWrite("RTS", FALSE, TRUE)),
                          !.rts = Level(FALSE),
                          !.ret = Ok("()"),
                          !.set_run_ok = TRUE]
    /\ UNCHANGED <<decodeVars, stream, pos, buf, results, pollVars>>

\* write_request_to_send(false) returns Err: the ? returns it
SetRunRtsFails ==
    /\ rpc = "set_run:rts"
    /\ rpc' = "idle"
    /\ ctl' = [ctl EXCEPT !.sig = Append(@, SignalWrite("RTS", FALSE, FALSE)),
                          !.ret = Err("Failed to set RTS")]
    /\ UNCHANGED <<decodeVars, stream, pos, buf, results, pollVars>>

CallResetDevice ==
    /\ rpc = "idle"
    /\ rpc' = "reset_device:high"
    /\ ctl' = [ctl EXCEPT !.op = "reset_device", !.sig = <<>>, !.ret = NoOutcome]
    /\ UNCHANGED <<decodeVars, stream, pos, buf, results, pollVars>>

\* write_request_to_send(true) returns Ok, then the 100 ms sleep
ResetAssert ==
    /\ rpc = "reset_device:high"
    /\ rpc' = "reset_device:low"
    /\ ctl' = [ctl EXCEPT !.sig = Append(@, SignalWrite("RTS", TRUE, TRUE)),
                          !.rts = Level(TRUE)]
    /\ UNCHANGED <<decodeVars, stream, pos, buf, results, pollVars>>

\* write_request_to_send(true) returns Err: the ? returns it
ResetAssertFails ==
    /\ rpc = "reset_device:high"
    /\ rpc' = "idle"
    /\ ctl' = [ctl EXCEPT !.sig = Append(@, SignalWrite("RTS", TRUE, FALSE)),
                          !.ret = Err("Failed to set RTS")]
    /\ UNCHANGED <<decodeVars, stream, pos, buf, results, pollVars>>

\* faulty variant: the reset also drops DTR
ResetDeassertBoth ==
    /\ rpc = "reset_device:low"
    /\ rpc' = "idle"
    /\ ctl' = [ctl EXCEPT !.sig = Append(@, SignalWrite("RTS", FALSE, TRUE)),
                          !.rts = Level(FALSE),
                          !.dtr = Level(FALSE),
                          !.ret = Ok("()")]
    /\ UNCHANGED <<decodeVars, stream, pos, buf, results, pollVars>>

\* write_request_to_send(false) returns Ok, which is the call's value
ResetDeassert ==
    /\ rpc = "reset_device:low"
    /\ rpc' = "idle"
    /\ ctl' = [ctl EXCEPT !.sig = Append(@, SignalWrite("RTS", FALSE, TRUE)),
                          !.rts = Level(FALSE),
                          !.ret = Ok("()")]
    /\ UNCHANGED <<decodeVars, stream, pos, buf, results, pollVars>>

\* write_request_to_send(false) returns Err, which is the call's value
ResetDeassertFails ==
    /\ rpc = "reset_device:low"
    /\ rpc' = "idle"
    /\ ctl' = [ctl EXCEPT !.sig = Append(@, SignalWrite("RTS", FALSE, FALSE)),
                          !.ret = Err("Failed to set RTS")]
    /\ UNCHANGED <<decodeVars, stream, pos, buf, results, pollVars>>

\* faulty variant: the input is drained by sending an LF and reading on
ClearInputWritesLf ==
    /\ rpc = "idle"
    /\ \E n \in pos..Len(stream) : pos' = n
    /\ out' = IF Len(out) < MaxOut THEN Append(out, [w |-> 0, b |-> LF]) ELSE out
    /\ ctl' = [ctl EXCEPT !.op = "clear_input", !.sig = <<>>, !.ret = Ok("()")]
    /\ UNCHANGED <<decodeVars, stream, rpc, buf, results, pollers>>

\* clear_input: port.clear(ClearBuffer::Input) returns Ok; the bytes that had
\* arrived and were not read yet, any number of those still to read, are gone
ClearInput ==
    /\ rpc = "idle"
    /\ \E n \in pos..Len(stream) : pos' = n
    /\ ctl' = [ctl EXCEPT !.op = "clear_input", !.sig = <<>>, !.ret = Ok("()")]
    /\ UNCHANGED <<decodeVars, stream, rpc, buf, results, pollVars>>

\* clear_input: port.clear returns Err, which the ? returns
ClearInputFails ==
    /\ rpc = "idle"
    /\ ctl' = [ctl EXCEPT !.op = "clear_input", !.sig = <<>>,
                          !.ret = Err("clear")]
    /\ UNCHANGED <<decodeVars, stream, pos, rpc, buf, results, pollVars>>

ControlNext ==
    \/ ClearInput
    \/ ClearInputFails
    \/ CallSetRun
    \/ SetRunDtr
    \/ SetRunDtrFails
    \/ SetRunRts
    \/ SetRunRtsFails
    \/ CallResetDevice
    \/ ResetAssert
    \/ ResetAssertFails
    \/ ResetDeassert
    \/ ResetDeassertFails

----------------------------------------------------------------------------
(* Specifications *)

InitIdle ==
    /\ pos = 0
    /\ rpc = "idle"
    /\ buf = <<>>
    /\ results = <<>>
    /\ pollers = [p \in PollerIds |-> [pc |-> "unspawned", idx |-> 1]]
    /\ out = <<>>
    /\ ctl = NoCall

\* a session: one caller of read_response, and the polling threads
Init ==
    /\ line = <<>>
    /\ outcome = NoOutcome
    /\ stream \in SessionStreams
    /\ InitIdle

Next == ReaderNext \/ PollerNext

Spec == Init /\ [][Next]_vars

\* the polling threads alone, each scheduled again and again; no call of
\* read_response is made
InitPolling ==
    /\ line = <<>>
    /\ outcome = NoOutcome
    /\ stream = <<>>
    /\ InitIdle

FairSpec ==
    /\ InitPolling
    /\ [][PollerNext]_vars
    /\ \A p \in PollerIds : WF_vars(poll_thread(p))

SpecPolling == InitPolling /\ [][PollerNext]_vars

\* the frame reader alone, over every stream of FrameStreams
InitFrames ==
    /\ line = <<>>
    /\ outcome = NoOutcome
    /\ stream \in FrameStreams
    /\ InitIdle

SpecFrames == InitFrames /\ [][ReaderNext]_vars

\* process_line alone, over every line of DecodeLines
InitDecode ==
    /\ line \in DecodeLines
    /\ outcome = NoOutcome
    /\ stream = <<>>
    /\ InitIdle

SpecDecode == InitDecode /\ [][ProcessLineCall]_vars

\* the caller's operations in any order over a one-line stream
InitSession ==
    /\ line = <<>>
    /\ outcome = NoOutcome
    /\ stream = <<"N", LF>>
    /\ InitIdle

\* set_run, reset_device and read_response, no polling thread
CallerNext == ControlNext \/ ReaderNext

SpecControl == InitSession /\ [][CallerNext]_vars

\* the same with start_poll_thread and the polling thread

SessionNext == ControlNext \/ ReaderNext \/ PollerNext

SpecSession == InitSession /\ [][SessionNext]_vars

----------------------------------------------------------------------------
(* The frame reader: C1 to C6 *)

RECURSIVE SplitFrom(_, _)
\* the lines of a byte stream: the runs of bytes between LFs, CRs dropped,
\* empty runs dropped; cur is the run so far
SplitFrom(s, cur) ==
    IF s = <<>> THEN <<>>
    ELSE IF s[1] = LF
         THEN (IF cur = <<>> THEN <<>> ELSE <<cur>>) \o SplitFrom(Tail(s), <<>>)
    ELSE IF s[1] = CR THEN SplitFrom(Tail(s), cur)
    ELSE SplitFrom(Tail(s), Append(cur, s[1]))

SplitLines(s) == SplitFrom(s, <<>>)

IsPrefix(a, b) == Len(a) <= Len(b) /\ a = SubSeq(b, 1, Len(a))

\* C1: when no transport read fails, read_response returns one result per
\* line of the stream, the i-th being what the i-th line alone decodes to (a
\* Response or an error), and all lines read means all results returned.
C1_OneResultPerLine ==
    Faults = 0 =>
        LET L == SplitLines(stream) IN
        /\ rpc # "panicked"
        /\ Len(results) <= Len(L)
        /\ \A i \in 1..Len(results) :
               /\ results[i] = process_line(L[i])
               /\ IsOk(results[i]) \/ IsErr(results[i])
        /\ pos = Len(stream) => Len(results) = Len(L)

\* C2: whatever bytes process_line is given, it returns a Response or an
\* error; it never unwinds.
C2_DecodingNeverPanics ==
    outcome # NoOutcome => IsOk(outcome) \/ IsErr(outcome)

CcmSig == Ok([tag |-> "CurrentModeCommand", mode |-> "Sig"])

\* the stream is n terminator bytes, then {CCM}, a separator byte, S and LF
NoiseThenCcmSig(n) ==
    /\ Len(stream) >= n + 8
    /\ \A i \in 1..n : stream[i] \in {LF, CR}
    /\ SubSeq(stream, n + 1, n + 5) = <<"{", "C", "C", "M", "}">>
    /\ stream[n + 6] \notin {LF, CR}
    /\ SubSeq(stream, n + 7, n + 8) = <<"S", LF>>

\* C3: for a stream of any number of LF and CR bytes followed by {CCM}_S and
\* LF, nothing is returned while the terminators and the frame are read, and
\* the first result is CurrentModeCommand with mode Sig.
C3_AbsorbsTerminators ==
    \A n \in 0..Len(stream) :
        NoiseThenCcmSig(n) /\ Faults = 0 =>
            /\ pos < n + 8 => results = <<>>
            /\ pos >= n + 8 => Len(results) >= 1 /\ results[1] = CcmSig

C3_Witness ==
    /\ NoiseThenCcmSig(MaxNoise)
    /\ stream[1] = LF
    /\ Len(results) = 1
    /\ results[1] = CcmSig

\* C4: a line of at least 5 bytes whose code is not one process_line
\* dispatches on makes process_line return an error.
C4_UnknownCodeIsError ==
    LET s == Retain(line) IN
    outcome # NoOutcome /\ Len(s) >= 5 /\ SubSeq(s, 2, 4) \notin RegistryCodes
        => IsErr(outcome)

TooShort == Err("ensure s.len() >= 5")

\* C5: a line of 1 to 4 bytes is answered with the length error, by return
\* and not by unwinding, and the next call starts from an empty buffer: what
\* it collects is a prefix of the next line, and what it returns is what the
\* next line alone decodes to.
C5_ShortLineIsError ==
    Faults = 0 =>
        LET L == SplitLines(stream)
            n == Len(results)
        IN  /\ \A i \in 1..n : Len(L[i]) \in 1..4 =>
                   /\ results[i] = TooShort
                   /\ i < n => results[i + 1] = process_line(L[i + 1])
                   /\ i = n /\ rpc = "idle" => buf = <<>>
                   /\ i = n /\ rpc = "reading" /\ n < Len(L) => IsPrefix(buf, L[n + 1])
            /\ rpc = "panicked" => Len(L[n + 1]) \notin 1..4

C5_Witness ==
    /\ Faults = 0
    /\ Len(results) = 2
    /\ Len(SplitLines(stream)[1]) = 4
    /\ results[1] = TooShort
    /\ results[2] = CcmSig

\* C6: every line process_line turns into a Response has "{" at index 0 and
\* "}" at index 4.
C6_FrameShapeValidated ==
    IsOk(outcome) =>
        /\ Retain(line)[1] = "{"
        /\ Retain(line)[5] = "}"

----------------------------------------------------------------------------
(* The polling thread: C7 to C10 *)

\* what polling thread p wrote, in order: bytes and flushes
Written(p) ==
    LET mine == SelectSeq(out, LAMBDA e : e.w = p) IN
    [k \in 1..Len(mine) |-> mine[k].b]

RECURSIVE CycleFrom(_)
\* the frames LF [ c1 c2 c3 ] LF of the codes i.. of the list, a flush after each
CycleFrom(i) ==
    IF i > Len(CODES) THEN <<>>
    ELSE <<LF, "[">> \o CODES[i] \o <<"]", LF, FLUSH>> \o CycleFrom(i + 1)

Cycle == CycleFrom(1)

\* the k-th event of the endless repetition of Cycle
ExpectedAt(k) == Cycle[((k - 1) % Len(Cycle)) + 1]

\* C7: what a polling thread has written is at every moment a prefix of the
\* endless repetition of the 7-byte frames LF [ c1 c2 c3 ] LF over the code
\* list in list order, with a flush after each frame and before the next.
C7_QueryStream ==
    \A p \in PollerIds :
        LET w == Written(p) IN
        \A k \in 1..Len(w) : w[k] = ExpectedAt(k)

C7_Witness ==
    /\ pollers[1].pc = "sleep"
    /\ pollers[1].idx = 1
    /\ Len(Written(1)) = Len(Cycle) + 8

\* the codes thread p has asked for so far: the three bytes after each "["
QueriedCodes(p) ==
    LET w == Written(p)
        at == SelectSeq([k \in 1..Len(w) |-> k],
                        LAMBDA k : w[k] = OPEN_BRACKET /\ k + 3 <= Len(w))
    IN  [n \in 1..Len(at) |-> SubSeq(w, at[n] + 1, at[n] + 3)]

\* C8: the list has 26 pairwise distinct codes, each one a code process_line
\* dispatches on, and a thread that has finished a cycle has asked for
\* exactly these 26, once each.
C8_PolledCodes ==
    /\ Len(CODES) = 26
    /\ \A i, j \in 1..Len(CODES) : i # j => CODES[i] # CODES[j]
    /\ \A i \in 1..Len(CODES) : Dispatch(CODES[i], <<>>) # Err("unknown response")
    /\ \A p \in PollerIds :
           pollers[p].pc = "interval" /\ Len(out) < MaxOut =>
               /\ Len(QueriedCodes(p)) = 26
               /\ QueriedCodes(p) = CODES

C8_Witness ==
    /\ pollers[1].pc = "interval"
    /\ Len(out) < MaxOut
    /\ Len(QueriedCodes(1)) = 26

\* C9: under weak fairness of the polling thread, from any moment at which
\* the thread runs, each code of the list is asked for again unless a write
\* or flush fails, and the inter-cycle sleep is followed by a new cycle.
C9_PollsForever ==
    \A p \in PollerIds :
        /\ \A i \in 1..Len(CODES) :
               (pollers[p].pc # "unspawned")
                   ~> \/ pollers[p].pc = "panicked"
                      \/ pollers[p].pc = "flush" /\ pollers[p].idx = i
        /\ (pollers[p].pc = "interval")
               ~> (pollers[p].pc = "LF1" /\ pollers[p].idx = 1)

C9_Witness ==
    /\ pollers[1].pc = "flush"
    /\ pollers[1].idx = 1
    /\ Len(Written(1)) > Len(Cycle)

\* C10: the polling thread's next write or flush can be taken whatever the
\* reader is doing, and the reader's next read can be taken whatever the
\* polling threads are doing.
C10_NoBlocking ==
    /\ \A p \in PollerIds :
           /\ IsWriteStep(pollers[p].pc) => ENABLED PollWrite(p)
           /\ pollers[p].pc = "flush" => ENABLED PollFlush(p)
    /\ rpc = "reading" /\ pos < Len(stream) => ENABLED ReadByte

C10_Witness ==
    /\ rpc = "reading"
    /\ pos = Len(stream)
    /\ pollers[1].pc = "CODE"
    /\ pollers[1].idx = Len(CODES)

----------------------------------------------------------------------------
(* The caller's operations: C11 to C14 *)

\* the line and level of each signal write of a call, in order
Attempted(sig) ==
    [i \in 1..Len(sig) |-> [line |-> sig[i].line, level |-> sig[i].level]]

\* no write follows a rejected one
StopsAtRejection(sig) == \A i \in 1..Len(sig) - 1 : sig[i].ok

\* the call of ctl.op has returned
Returned == ctl.ret # NoOutcome

SetRunWrites ==
    << [line |-> "DTR", level |-> "low"], [line |-> "RTS", level |-> "low"] >>

\* C11: set_run writes DTR low and then RTS low, each once and with no
\* retry; a rejected DTR write returns the DTR error with RTS unwritten, a
\* rejected RTS write returns the RTS error, and Ok is returned exactly
\* when both writes were accepted, with both lines low.
C11_SetRunOrder ==
    ctl.op = "set_run" =>
        /\ IsPrefix(Attempted(ctl.sig), SetRunWrites)
        /\ StopsAtRejection(ctl.sig)
        /\ Returned =>
               /\ Len(ctl.sig) >= 1
               /\ ~ctl.sig[1].ok =>
                      Len(ctl.sig) = 1 /\ ctl.ret = Err("Failed to set DTR")
               /\ ctl.sig[1].ok =>
                      /\ Len(ctl.sig) = 2
                      /\ ~ctl.sig[2].ok => ctl.ret = Err("Failed to set RTS")
                      /\ ctl.sig[2].ok => ctl.ret = Ok("()")
               /\ IsOk(ctl.ret) =>
                      ctl.dtr = "low" /\ ctl.rts = "low" /\ ctl.set_run_ok

\* set_run has returned Ok after its two writes
C11_Witness ==
    /\ ctl.op = "set_run"
    /\ IsOk(ctl.ret)
    /\ Len(ctl.sig) = 2
    /\ rpc = "idle"

ResetWrites ==
    << [line |-> "RTS", level |-> "high"], [line |-> "RTS", level |-> "low"] >>

ResetPcs == { "reset_device:high", "reset_device:low" }

\* C12: every step of reset_device leaves DTR, the bytes written and the
\* input read as they are; the call writes RTS high and then RTS low, stops
\* at a rejected write with an error, and returns Ok only with RTS low.
C12_ResetDevice ==
    [][ (rpc \in ResetPcs \/ rpc' \in ResetPcs) =>
            /\ ctl'.dtr = ctl.dtr
            /\ out' = out
            /\ pos' = pos /\ buf' = buf /\ results' = results
            /\ ctl'.op = "reset_device"
            /\ IsPrefix(Attempted(ctl'.sig), ResetWrites)
            /\ StopsAtRejection(ctl'.sig)
            /\ ctl'.ret # NoOutcome =>
                   /\ Len(ctl'.sig) >= 1
                   /\ ~ctl'.sig[1].ok =>
                          Len(ctl'.sig) = 1 /\ IsErr(ctl'.ret)
                   /\ ctl'.sig[1].ok =>
                          /\ Len(ctl'.sig) = 2
                          /\ IsOk(ctl'.ret) <=> ctl'.sig[2].ok
                   /\ IsOk(ctl'.ret) => ctl'.rts = "low"
      ]_vars

\* reset_device returned Ok on a port that was never told a DTR level
C12_Witness ==
    /\ ctl.op = "reset_device"
    /\ IsOk(ctl.ret)
    /\ ctl.dtr = "unknown"
    /\ ctl.rts = "low"

\* C13: a transport read that fails (timeout, other error, zero bytes) ends
\* the call in the same step with its own error and no further read; the
\* three errors differ from each other, and a call that ends on a byte read
\* never returns one of them.
C13_TimeoutIsFatal ==
    [][ /\ Cardinality(TransportErrors) = 3
        /\ (rpc = "reading" /\ pos' = pos) =>
               /\ rpc' = "idle"
               /\ buf' = <<>>
               /\ Len(results') = Len(results) + 1
               /\ SubSeq(results', 1, Len(results)) = results
               /\ results'[Len(results')] \in TransportErrors
        /\ (rpc = "reading" /\ pos' # pos /\ results' # results) =>
               results'[Len(results')] \notin TransportErrors
      ]_vars

\* a call ended with the timeout error and the caller's next call read a frame
C13_Witness ==
    /\ Len(results) = 2
    /\ results[1] = Err("timeout")
    /\ IsOk(results[2])

\* C14: before some set_run call has returned Ok, no polling thread has
\* written anything and read_response has read and returned nothing.
C14_RunningBeforeUse ==
    ~ctl.set_run_ok =>
        /\ out = <<>>
        /\ pos = 0
        /\ results = <<>>

----------------------------------------------------------------------------
(* Queries and decoding: C15 to C20 *)

\* the last n events thread p wrote
LastWritten(p, n) ==
    LET w == Written(p) IN SubSeq(w, Len(w) - n + 1, Len(w))

\* C15: when a polling thread has written the frame of a code c and is about
\* to flush, the 7 bytes it wrote, with the line terminators removed, are
\* `[` c `]`, and the header step of process_line, applied to them, gives c.
C15_QueryRoundTrip ==
    \A p \in PollerIds :
        pollers[p].pc = "flush" /\ Len(out) < MaxOut =>
            LET c == CODES[pollers[p].idx]
                s == Retain(LastWritten(p, 7))
            IN  /\ Len(Written(p)) >= 7
                /\ s = <<OPEN_BRACKET>> \o c \o <<CLOSE_BRACKET>>
                /\ HeaderCode(s) = c

C15_Witness ==
    /\ pollers[1].pc = "flush"
    /\ pollers[1].idx = Len(CODES)
    /\ Len(out) < MaxOut

\* the call of process_line has returned or unwound
Decoded == outcome # NoOutcome

\* line is `{` code `}`, one more byte, and a payload free of terminators
IsFrameOf(code) ==
    /\ Len(line) >= 6
    /\ Retain(line) = line
    /\ SubSeq(line, 1, 5) = <<"{">> \o code \o <<"}">>
    /\ line[6] \notin NonAscii

Payload == SubSeq(line, 7, Len(line))

\* what each byte of each single-byte code stands for
SingleByteValues ==
    CurrentModeCommand_CODE :>
        ("S" :> [tag |-> "CurrentModeCommand", mode |-> "Sig"]
         @@ "W" :> [tag |-> "CurrentModeCommand", mode |-> "Wspr"]
         @@ "N" :> [tag |-> "CurrentModeCommand", mode |-> "Idle"])
    @@ StartModeOption_CODE :>
        ("S" :> [tag |-> "StartModeOption", mode |-> "Sig"]
         @@ "W" :> [tag |-> "StartModeOption", mode |-> "Wspr"]
         @@ "N" :> [tag |-> "StartModeOption", mode |-> "Idle"])
    @@ CurrentReferenceCommand_CODE :>
        ("E" :> [tag |-> "CurrentReferenceCommand", reference |-> "External"]
         @@ "I" :> [tag |-> "CurrentReferenceCommand", reference |-> "Internal"])
    @@ LocationSourceOption_CODE :>
        ("G" :> [tag |-> "LocationSourceOption", location_source |-> "Gps"]
         @@ "M" :> [tag |-> "LocationSourceOption", location_source |-> "Manual"])
    @@ LocatorPrecisionOption_CODE :>
        ("4" :> [tag |-> "LocatorPrecisionOption",
                 locator_precision |-> "Maidenhead4"]
         @@ "6" :> [tag |-> "LocatorPrecisionOption",
                    locator_precision |-> "Maidenhead6"])
    @@ PowerEncodingOption_CODE :>
        ("N" :> [tag |-> "PowerEncodingOption", power_encoding |-> "Normal"]
         @@ "A" :> [tag |-> "PowerEncodingOption", power_encoding |-> "Altitude"])
    @@ PrefixSuffixOption_CODE :>
        ("P" :> [tag |-> "PrefixSuffixOption", prefix_suffix |-> "Prefix"]
         @@ "S" :> [tag |-> "PrefixSuffixOption", prefix_suffix |-> "Suffix"]
         @@ "N" :> [tag |-> "PrefixSuffixOption", prefix_suffix |-> "None"])
    @@ ConstellationOption_CODE :>
        ("G" :> [tag |-> "ConstellationOption", constellation |-> "GPSOnly"]
         @@ "B" :> [tag |-> "ConstellationOption", constellation |-> "BeiDouOnly"]
         @@ "A" :> [tag |-> "ConstellationOption", constellation |-> "All"])
    @@ LockStatusGPS_CODE :>
        ("T" :> [tag |-> "LockStatusGPS", lock |-> "Locked"]
         @@ "F" :> [tag |-> "LockStatusGPS", lock |-> "Unlocked"])
    @@ TransmitterStatus_CODE :>
        ("T" :> [tag |-> "TransmitterStatus", on |-> TRUE]
         @@ "F" :> [tag |-> "TransmitterStatus", on |-> FALSE])
    @@ LowPassFilterSet_CODE :>
        ("A" :> [tag |-> "LowPassFilterSet", filter_bank |-> "A"]
         @@ "B" :> [tag |-> "LowPassFilterSet", filter_bank |-> "B"]
         @@ "C" :> [tag |-> "LowPassFilterSet", filter_bank |-> "C"]
         @@ "D" :> [tag |-> "LowPassFilterSet", filter_bank |-> "D"])

\* C16: for the eleven single-byte codes, a frame decodes to a Response
\* exactly when its payload is one byte of the code's set, and then to the
\* value that byte stands for; every other payload gives an error.
C16_SingleByteEnums ==
    \A code \in DOMAIN SingleByteValues :
        Decoded /\ IsFrameOf(code) =>
            IF Len(Payload) = 1 /\ Payload[1] \in DOMAIN SingleByteValues[code]
            THEN outcome = Ok(SingleByteValues[code][Payload[1]])
            ELSE IsErr(outcome)

C16_Witness ==
    /\ line = <<"{", "L", "P", "I", "}", " ", "D">>
    /\ outcome = Ok([tag |-> "LowPassFilterSet", filter_bank |-> "D"])

AllDigits(s) == s # <<>> /\ \A i \in 1..Len(s) : s[i] \in Digits

BandNumbers == (0..15) \cup {98, 99}

\* what the claim says of a band field ds: the band numbered n, or the
\* unrecognized-enum-value error; wrap(b) is the Response around the band
BandOrEnumError(ds, wrap(_)) ==
    IF DigitsToNat(ds) \in BandNumbers
    THEN Ok(wrap(Band[DigitsToNat(ds)]))
    ELSE Err("Failed to parse enum")

\* C17: a band field of 1 to 3 decimal digits with value n (the payload of
\* TBN, bytes 0..1 of OBD, bytes 2..3 of FLP) decodes to the band numbered n
\* when n is in 0..15 or is 98 or 99, and fails with the
\* unrecognized-enum-value error for every other n in 0..999.
C17_BandDecode ==
    /\ Decoded /\ IsFrameOf(TransmitterCurrentBand_CODE)
         /\ Len(Payload) \in 1..3 /\ AllDigits(Payload) =>
           outcome = BandOrEnumError(Payload,
               LAMBDA b : [tag |-> "TransmitterCurrentBand", band |-> b])
    /\ Decoded /\ IsFrameOf(BandTxEnable_CODE) /\ Len(Payload) = 4
         /\ AllDigits(SubSeq(Payload, 1, 2)) /\ Payload[4] \in {"E", "D"} =>
           outcome = BandOrEnumError(SubSeq(Payload, 1, 2),
               LAMBDA b : [tag |-> "BandTxEnable", band |-> b,
                           enabled |-> (Payload[4] = "E")])
    /\ Decoded /\ IsFrameOf(LowPassFilterFactory_CODE) /\ Len(Payload) = 4
         /\ AllDigits(SubSeq(Payload, 3, 4)) /\ Payload[1] \in DOMAIN FilterBank =>
           outcome = BandOrEnumError(SubSeq(Payload, 3, 4),
               LAMBDA b : [tag |-> "LowPassFilterFactory",
                           filter_bank |-> FilterBank[Payload[1]], band |-> b])

\* the TimeSlot the buckets of the claim give the number n
SlotOf(n) ==
    CASE n \in 0..4 -> "TenMinute"
      [] n \in 5..14 -> "TwentyMinute"
      [] n = 15 -> "BandCoordinated"
      [] n = 16 -> "NoSchedule"
      [] n = 17 -> "Tracker"

\* C18: an OTS payload of decimal digits with value n decodes to TenMinute
\* for n in 0..4, TwentyMinute for 5..14, BandCoordinated for 15, NoSchedule
\* for 16 and Tracker for 17, and is an error for every n >= 18.
C18_TimeSlotBuckets ==
    Decoded /\ IsFrameOf(TimeSlotOption_CODE) /\ AllDigits(Payload) =>
        LET ds == StripZeros(Payload) IN
        IF Len(ds) <= 2 /\ DigitsToNat(ds) <= 17
        THEN outcome = Ok([tag |-> "TimeSlotOption",
                           time_slot |-> SlotOf(DigitsToNat(ds))])
        ELSE IsErr(outcome)

C18_Witness ==
    /\ line = <<"{", "O", "T", "S", "}", " ", "1", "4">>
    /\ outcome = Ok([tag |-> "TimeSlotOption", time_slot |-> "TwentyMinute"])

IntegerCodes ==
    { TxPauseOption_CODE, PowerData_CODE, ExternalReferenceFrequencyData_CODE,
      ReferenceOscillatorFrequencyFactory_CODE, ProductModelNumberFactory_CODE }

\* the largest value of the integer type of the field
WidthOf(code) ==
    CASE code = PowerData_CODE -> U8_MAX
      [] code = ProductModelNumberFactory_CODE -> U16_MAX
      [] OTHER -> U32_MAX

\* the Response for the canonical digit string ds
IntegerResponse(code, ds) ==
    CASE code = TxPauseOption_CODE ->
             [tag |-> "TxPauseOption", duration_secs |-> MulDigits(60, ds)]
      [] code = PowerData_CODE ->
             [tag |-> "PowerData", dbm |-> DigitsToNat(ds)]
      [] code = ExternalReferenceFrequencyData_CODE ->
             [tag |-> "ExternalReferenceFrequencyData", hertz_u32 |-> ds]
      [] code = ReferenceOscillatorFrequencyFactory_CODE ->
             [tag |-> "ReferenceOscillatorFrequencyFactory", hertz_u32 |-> ds]
      [] code = ProductModelNumberFactory_CODE ->
             [tag |-> "ProductModelNumberFactory", model |-> DigitsToNat(ds)]

\* C19: OTP, DPD, DER, FRF and FPN decode exactly when the payload is a
\* non-empty string of decimal digits only whose value fits the field's
\* integer type, and then give that value with leading zeros ignored (OTP:
\* 60 times the minutes, in seconds); any other payload is an error.
C19_IntegerFields ==
    \A code \in IntegerCodes :
        Decoded /\ IsFrameOf(code) =>
            IF AllDigits(Payload) /\ Fits(Payload, WidthOf(code))
            THEN outcome = Ok(IntegerResponse(code, StripZeros(Payload)))
            ELSE IsErr(outcome)

\* ds is two decimal digits that number a band
IsBandField(ds) == AllDigits(ds) /\ DigitsToNat(ds) \in BandNumbers

\* C20: OBD and FLP decode only payloads of exactly 4 bytes.  OBD: bytes
\* 0..1 number the band and byte 3 is E (enabled) or D (disabled); FLP: byte
\* 0 is the bank A..D and bytes 2..3 number the band.  Another length, another
\* flag or bank byte, or digits that number no band give an error, and the
\* decoded value is the same whatever byte 2 (OBD) or byte 1 (FLP) is.
C20_CompositeFields ==
    /\ Decoded /\ IsFrameOf(BandTxEnable_CODE) =>
           /\ Len(Payload) # 4 => IsErr(outcome)
           /\ Len(Payload) = 4 /\ Payload[4] \notin {"E", "D"} => IsErr(outcome)
           /\ Len(Payload) = 4 /\ AllDigits(SubSeq(Payload, 1, 2))
                  /\ ~IsBandField(SubSeq(Payload, 1, 2)) => IsErr(outcome)
           /\ Len(Payload) = 4 /\ Payload[4] \in {"E", "D"}
                  /\ IsBandField(SubSeq(Payload, 1, 2)) =>
                  outcome = Ok([tag |-> "BandTxEnable",
                                band |-> Band[DigitsToNat(SubSeq(Payload, 1, 2))],
                                enabled |-> (Payload[4] = "E")])
    /\ Decoded /\ IsFrameOf(LowPassFilterFactory_CODE) =>
           /\ Len(Payload) # 4 => IsErr(outcome)
           /\ Len(Payload) = 4 /\ Payload[1] \notin {"A", "B", "C", "D"} =>
                  IsErr(outcome)
           /\ Len(Payload) = 4 /\ AllDigits(SubSeq(Payload, 3, 4))
                  /\ ~IsBandField(SubSeq(Payload, 3, 4)) => IsErr(outcome)
           /\ Len(Payload) = 4 /\ Payload[1] \in {"A", "B", "C", "D"}
                  /\ IsBandField(SubSeq(Payload, 3, 4)) =>
                  outcome = Ok([tag |-> "LowPassFilterFactory",
                                filter_bank |-> Payload[1],
                                band |-> Band[DigitsToNat(SubSeq(Payload, 3, 4))]])

\* an OBD frame whose ignored byte is not a space has been decoded
C20_Witness ==
    /\ line = <<"{", "O", "B", "D", "}", " ", "0", "5", "0x80", "E">>
    /\ outcome = Ok([tag |-> "BandTxEnable", band |-> "B30m", enabled |-> TRUE])

----------------------------------------------------------------------------
(* Text, separator, failures and ranges: C21 to C28 *)

\* the Response each free-text code decodes to
FreeTextTags ==
    CallSignData_CODE :> "CallSignData" @@ SuffixData_CODE :> "SuffixData"
    @@ PrefixData_CODE :> "PrefixData" @@ Locator4Data_CODE :> "Locator4Data"
    @@ Locator6Data_CODE :> "Locator6Data" @@ NameData_CODE :> "NameData"
    @@ HardwareVersionFactory_CODE :> "HardwareVersionFactory"
    @@ HardwareRevisionFactory_CODE :> "HardwareRevisionFactory"
    @@ SoftwareVersionFactory_CODE :> "SoftwareVersionFactory"
    @@ SoftwareRevisionFactory_CODE :> "SoftwareRevisionFactory"
    @@ Locator4GPS_CODE :> "Locator4GPS" @@ Locator6GPS_CODE :> "Locator6GPS"
    @@ TimeGPS_CODE :> "TimeGPS" @@ SatelliteInfoGPS_CODE :> "SatelliteInfoGPS"
    @@ MicrocontrollerInfo_CODE :> "MicrocontrollerInfo"
    @@ TransmitterWSPRSymbol_CODE :> "TransmitterWSPRSymbol"

\* C21: for the sixteen free-text codes, a payload of 7-bit ASCII bytes
\* decodes to a text equal to the payload byte for byte (nothing trimmed,
\* any length, the empty payload included), and a payload with a byte >= 128
\* is an error.
C21_FreeTextVerbatim ==
    \A code \in DOMAIN FreeTextTags :
        Decoded /\ IsFrameOf(code) =>
            IF \A i \in 1..Len(Payload) : Payload[i] \notin NonAscii
            THEN outcome = Ok([tag |-> FreeTextTags[code], text |-> Payload])
            ELSE IsErr(outcome)

\* a name that starts with a space has been decoded
C21_Witness ==
    /\ line = <<"{", "D", "N", "M", "}", " ", " ", "K", "1">>
    /\ outcome = Ok([tag |-> "NameData", text |-> <<" ", "K", "1">>])

\* bytes put in place of the byte at index 5
SeparatorBytes == {" ", "_", "S", "5", "}", "0x80"}

\* the same Response, or an error in both cases
SameOutcome(a, b) == a = b \/ (IsErr(a) /\ IsErr(b))

\* C22: a line of 6 or more bytes (terminators removed) gives the same
\* outcome whatever its byte at index 5 is: the same Response, or an error
\* in both cases.
C22_SeparatorSkipped ==
    Decoded /\ Len(line) >= 6 /\ Retain(line) = line =>
        \A b \in SeparatorBytes :
            SameOutcome(outcome, process_line([line EXCEPT ![6] = b]))

\* a frame with a non-ASCII byte at index 5 has been decoded
C22_Witness ==
    /\ line = <<"{", "C", "C", "M", "}", "0x80", "S">>
    /\ outcome = Ok([tag |-> "CurrentModeCommand", mode |-> "Sig"])

\* C23: a polling thread whose write or flush failed stays stopped and
\* writes nothing more; the step in which it fails changes nothing of the
\* caller's read_response, and with a failed thread the caller can still
\* start a call and read the next byte of a line.
C23_PollerFailureIsLocal ==
    /\ [](\A p \in PollerIds :
              pollers[p].pc = "panicked" =>
                  /\ ~ENABLED PollWrite(p)
                  /\ ~ENABLED PollFlush(p)
                  /\ rpc = "idle" /\ Len(results) < MaxLines + MaxFaults =>
                         ENABLED CallReadResponse
                  /\ rpc = "reading" /\ pos < Len(stream) => ENABLED ReadByte)
    /\ [][\A p \in PollerIds :
              /\ pollers[p].pc = "panicked" =>
                     /\ pollers'[p].pc = "panicked"
                     /\ \A k \in (Len(out) + 1)..Len(out') : out'[k].w # p
              /\ pollers[p].pc # "panicked" /\ pollers'[p].pc = "panicked" =>
                     UNCHANGED readerVars
         ]_vars

\* the thread stopped in the middle of its first frame and a call of
\* read_response has returned a Response
C23_Witness ==
    /\ pollers[1].pc = "panicked"
    /\ Written(1) = <<LF, OPEN_BRACKET>>
    /\ results = <<Ok([tag |-> "MicrocontrollerPause"])>>

\* C24: a DGF payload of 1 to 12 decimal digits always decodes, to its
\* value in centihertz divided by 100.
C24_GeneratorFrequencyWidth ==
    Decoded /\ IsFrameOf(GeneratorFrequencyData_CODE)
        /\ AllDigits(Payload) /\ Len(Payload) <= 12 =>
        outcome = Ok([tag |-> "GeneratorFrequencyData",
                      hertz |-> F32Div(StripZeros(Payload), 100)])

\* the longest pause the documentation allows, 99999 minutes, in seconds
MaxPauseSecs == <<"5", "9", "9", "9", "9", "4", "0">>

\* C25: a decoded DPD has dbm in 0..60, a decoded FPN has model in
\* 0..65534, and a decoded OTP lasts at most 99999 minutes; a value outside
\* its range is an error.
C25_DocumentedRanges ==
    /\ Decoded /\ IsFrameOf(PowerData_CODE) /\ IsOk(outcome) =>
           outcome.val.dbm \in 0..60
    /\ Decoded /\ IsFrameOf(ProductModelNumberFactory_CODE) /\ IsOk(outcome) =>
           outcome.val.model \in 0..65534
    /\ Decoded /\ IsFrameOf(TxPauseOption_CODE) /\ IsOk(outcome) =>
           Fits(outcome.val.duration_secs, MaxPauseSecs)

\* C26: no buffer exists outside a call of read_response and every call
\* starts with an empty one; during a call the buffer grows only by the byte
\* just read, and the line a call decodes is its own buffer.  So the bytes a
\* call read before a timeout or I/O error are in no later call's line.
C26_NoBufferBetweenCalls ==
    /\ [](rpc # "reading" => buf = <<>>)
    /\ [][ /\ rpc # "reading" /\ rpc' = "reading" => buf' = <<>>
           /\ rpc = "reading" /\ rpc' = "reading" =>
                  \/ buf' = buf
                  \/ pos' = pos + 1 /\ buf' = Append(buf, stream[pos'])
           /\ rpc = "reading" /\ rpc' = "idle" /\ pos' = pos + 1 =>
                  results' = Append(results, process_line(buf))
         ]_vars

\* a call timed out after reading `{CCM`, and the next call decoded the rest
\* of the line, `} S`, on its own
C26_Witness ==
    /\ results = <<Err("timeout"), Err("ensure s.len() >= 5")>>
    /\ pos = 8
    /\ SubSeq(stream, 1, 8) = <<"{", "C", "C", "M", "}", " ", "S", LF>>

\* the polling threads that were spawned
Spawned == { p \in PollerIds : pollers[p].pc # "unspawned" }

\* C27: a step of set_run, reset_device, clear_input or read_response
\* leaves the written bytes as they are, and every byte written was written
\* by a polling thread; with exactly one polling thread the whole output is
\* therefore a prefix of the repeated frames LF [ code ] LF flush: no frame
\* is split by anything else, whatever the caller does in between.
C27_OnlyPollerWrites ==
    /\ [](/\ \A k \in 1..Len(out) : out[k].w \in PollerIds
          /\ Cardinality(Spawned) = 1 =>
                 \A k \in 1..Len(out) : out[k].b = ExpectedAt(k))
    /\ [][ (rpc' # rpc \/ ctl' # ctl \/ pos' # pos \/ buf' # buf
                \/ results' # results) => out' = out ]_vars

\* the caller is between the two signal writes of set_run, after a
\* clear_input or reset_device, while the thread is inside its second frame
C27_Witness ==
    /\ rpc = "set_run:rts"
    /\ pos > 0
    /\ pollers[1].pc = "CODE"
    /\ pollers[1].idx = 2

-----------------------------------------------------------------------------
(* The command-line binary, src/bin/zachtek.rs: its own poll_thread and the
   dispatch of its own process_line.  A command and a response header are the
   five bytes the source writes them with. *)

\* the patterns of the match in the binary's process_line
bin_process_line_arms ==
    {
      <<"{", "C", "C", "M", "}">>, <<"{", "C", "C", "R", "}">>,
      <<"{", "O", "T", "P", "}">>, <<"{", "O", "S", "M", "}">>,
      <<"{", "O", "B", "D", "}">>, <<"{", "O", "L", "C", "}">>,
      <<"{", "O", "L", "P", "}">>, <<"{", "O", "P", "W", "}">>,
      <<"{", "O", "T", "S", "}">>, <<"{", "O", "P", "S", "}">>,
      <<"{", "O", "S", "C", "}">>, <<"{", "D", "C", "S", "}">>,
      <<"{", "D", "S", "F", "}">>, <<"{", "D", "P", "F", "}">>,
      <<"{", "D", "L", "4", "}">>, <<"{", "D", "L", "6", "}">>,
      <<"{", "D", "P", "D", "}">>, <<"{", "D", "N", "M", "}">>,
      <<"{", "D", "G", "F", "}">>, <<"{", "D", "E", "R", "}">>,
      <<"{", "F", "P", "N", "}">>, <<"{", "F", "H", "V", "}">>,
      <<"{", "F", "H", "R", "}">>, <<"{", "F", "S", "V", "}">>,
      <<"{", "F", "S", "R", "}">>, <<"{", "F", "R", "F", "}">>,
      <<"{", "F", "L", "P", "}">>, <<"{", "G", "L", "4", "}">>,
      <<"{", "G", "L", "6", "}">>, <<"{", "G", "T", "M", "}">>,
      <<"{", "G", "L", "C", "}">>, <<"{", "G", "S", "I", "}">>,
      <<"{", "T", "F", "Q", "}">>, <<"{", "T", "O", "N", "}">>,
      <<"{", "M", "P", "S", "}">>, <<"{", "M", "I", "N", "}">>,
      <<"{", "L", "P", "I", "}">>, <<"{", "M", "V", "C", "}">>,
      <<"{", "T", "B", "N", "}">>, <<"{", "T", "W", "S", "}">>,
      <<"{", "T", "C", "C", "}">> }

\* the binary's process_line as far as the arm it takes: the line without CR
\* and LF; nothing for an empty line; too short under 5 bytes; the unwrap in
\* ascii_bytes_to_string and the slice &s[6..] panic; then the match on the
\* first five bytes, "unknown response" being its default arm
bin_process_line(s0) ==
    LET s == Retain(s0)
    IN  IF s = <<>> THEN "return"
        ELSE IF Len(s) < 5 THEN "Line is too short"
        ELSE IF IsErr(ascii_bytes_to_string(SubSeq(s, 1, 5))) THEN "panic"
        ELSE IF Len(s) < 6 THEN "panic"
        ELSE IF SubSeq(s, 1, 5) \in bin_process_line_arms
             THEN "arm"
             ELSE "unknown response"

\* GET_COMMANDS of the binary's poll_thread
GET_COMMANDS ==
    <<
      <<"[", "C", "C", "M", "]">>, <<"[", "C", "C", "R", "]">>,
      <<"[", "O", "T", "P", "]">>, <<"[", "O", "S", "M", "]">>,
      <<"[", "O", "B", "D", "]">>, <<"[", "O", "L", "C", "]">>,
      <<"[", "O", "L", "P", "]">>, <<"[", "O", "P", "W", "]">>,
      <<"[", "O", "T", "S", "]">>, <<"[", "O", "P", "S", "]">>,
      <<"[", "O", "S", "C", "]">>, <<"[", "D", "S", "C", "]">>,
      <<"[", "D", "S", "F", "]">>, <<"[", "D", "P", "F", "]">>,
      <<"[", "D", "L", "4", "]">>, <<"[", "D", "L", "6", "]">>,
      <<"[", "D", "P", "D", "]">>, <<"[", "D", "N", "M", "]">>,
      <<"[", "D", "G", "F", "]">>, <<"[", "D", "E", "R", "]">>,
      <<"[", "F", "P", "N", "]">>, <<"[", "F", "H", "V", "]">>,
      <<"[", "F", "H", "R", "]">>, <<"[", "F", "S", "V", "]">>,
      <<"[", "F", "S", "R", "]">>, <<"[", "F", "R", "F", "]">>,
      <<"[", "F", "L", "P", "]">> >>

\* the bytes the binary's poll_thread gives the write_all at step pc
bin_write(pc, command) ==
    CASE pc = "LF1" -> <<LF>>
      [] pc = "COMMAND" -> command
      [] pc = "LF2" -> <<LF>>

bin_AfterWrite(pc) ==
    CASE pc = "LF1" -> "COMMAND"
      [] pc = "COMMAND" -> "LF2"
      [] pc = "LF2" -> "flush"

\* the binary has one polling thread, spawned by main
BinPoller == 1

\* a write_all of the binary's poll_thread returns Ok
BinPollWrite ==
    /\ pollers[BinPoller].pc \in {"LF1", "COMMAND", "LF2"}
    /\ out' = Record(BinPoller, bin_write(pollers[BinPoller].pc,
                                          GET_COMMANDS[pollers[BinPoller].idx]))
    /\ pollers' = [pollers EXCEPT
                       ![BinPoller].pc = bin_AfterWrite(pollers[BinPoller].pc)]
    /\ UNCHANGED <<decodeVars, ctl, readerVars>>

\* a write_all returns Err after part of its bytes went out: expect unwinds
BinPollWriteFails ==
    /\ pollers[BinPoller].pc \in {"LF1", "COMMAND", "LF2"}
    /\ LET bytes == bin_write(pollers[BinPoller].pc,
                              GET_COMMANDS[pollers[BinPoller].idx])
       IN  \E n \in 0..(Len(bytes) - 1) :
               out' = Record(BinPoller, SubSeq(bytes, 1, n))
    /\ pollers' = [pollers EXCEPT ![BinPoller].pc = "panicked"]
    /\ UNCHANGED <<decodeVars, ctl, readerVars>>

\* port.flush() returns Ok
BinPollFlush ==
    /\ pollers[BinPoller].pc = "flush"
    /\ out' = Record(BinPoller, <<FLUSH>>)
    /\ pollers' = [pollers EXCEPT ![BinPoller].pc = "sleep"]
    /\ UNCHANGED <<decodeVars, ctl, readerVars>>

\* port.flush() returns Err: expect unwinds
BinPollFlushFails ==
    /\ pollers[BinPoller].pc = "flush"
    /\ pollers' = [pollers EXCEPT ![BinPoller].pc = "panicked"]
    /\ UNCHANGED <<decodeVars, ctl, readerVars, out>>

\* the 500 ms sleep ends: the next command, the first one after the last
BinPollSleep ==
    /\ pollers[BinPoller].pc = "sleep"
    /\ pollers' = [pollers EXCEPT ![BinPoller] =
                       [pc |-> "LF1",
                        idx |-> IF @.idx < Len(GET_COMMANDS)
                                THEN @.idx + 1 ELSE 1]]
    /\ UNCHANGED <<decodeVars, ctl, readerVars, out>>

bin_poll_thread ==
    \/ BinPollWrite
    \/ BinPollWriteFails
    \/ BinPollFlush
    \/ BinPollFlushFails
    \/ BinPollSleep

\* main has called set_run and spawned its polling thread
InitBinary ==
    /\ line = <<>>
    /\ outcome = NoOutcome
    /\ stream = <<>>
    /\ pos = 0
    /\ rpc = "idle"
    /\ buf = <<>>
    /\ results = <<>>
    /\ pollers = [p \in PollerIds |->
                     IF p = BinPoller THEN [pc |-> "LF1", idx |-> 1]
                     ELSE [pc |-> "unspawned", idx |-> 1]]
    /\ out = <<>>
    /\ ctl = NoCall

SpecBinary == InitBinary /\ [][bin_poll_thread]_vars

\* the commands of which all five bytes are in the output
CommandsSent ==
    { <<out[k].b, out[k + 1].b, out[k + 2].b, out[k + 3].b, out[k + 4].b>> :
        k \in { j \in 1..(Len(out) - 4) :
                  out[j].b = OPEN_BRACKET /\ out[j + 4].b = CLOSE_BRACKET } }

\* the header of the response to a command: the same code between braces
ResponseHeader(command) == <<"{", command[2], command[3], command[4], "}">>

\* C28: every command the binary's polling thread has sent names a code
\* whose response line the binary's process_line takes a decoding arm for.
C28_BinaryPollsDecodable ==
    \A command \in CommandsSent :
        bin_process_line(ResponseHeader(command) \o <<" ", "E">>) = "arm"

============================================================================
